---- MODULE Spec2Model ----
(***************************************************************************)
(* A model of the v-connect backend (src/Server/app.js): the credential    *)
(* store, the session gate and the routes that read or write the user,     *)
(* project, club and profile collections.                                  *)
(*                                                                         *)
(* Requests that make one store operation are one action.  POST /signup    *)
(* and POST /userpage make two store operations each (a find, then a       *)
(* save), separated by an await, so each is two actions and concurrent     *)
(* requests interleave between them.                                       *)
(***************************************************************************)
EXTENDS Integers, Sequences, FiniteSets, TLC

VARIABLES
  users,          \* the User collection
  sessions,       \* the session store: sid -> session
  nextSid,        \* the number of session ids issued so far, plus one
  projects,       \* the Project collection
  madeBy,         \* history: the principals of the POST /makeproj requests that
                  \* succeeded, in order
  clubs,          \* the number of Club documents
  details,        \* the userdetail (profile) collection
  emailUnique,    \* whether the userdetail schema has a unique index on email
  lastSaved,      \* history: email -> the fields of the last POST /userpage saved
  profileWriter,  \* history: email -> who last wrote that email's profile
  signupReq,      \* the POST /signup requests of this process, by slot
  profileReq,     \* the POST /userpage requests in flight, by slot
  lastResp        \* the response most recently sent by a route of one step

vars == <<users, sessions, nextSid, projects, madeBy, clubs, details, emailUnique,
          lastSaved, profileWriter, signupReq, profileReq, lastResp>>

(***************************** bounds **************************************)
MaxSessions == 2
MaxFlash == 1
MaxProjects == 1
MaxClubs == 1
MaxDocs == 2
MaxInflight == 2

(***************************** inputs **************************************)
Missing == ""                      \* a body field that was not sent
Usernames == {"alice", "bob"}
Emails == {"a@x.com", "b@x.com"}
Passwords == {"p1", "p2"}
FullNames == {"N1", "N2"}
Phones == {"1", "2"}
UserIds == 1..Cardinality(Usernames)
NoCookie == 0
Tampered == -1                     \* a cookie whose signature does not verify
Cookies == {NoCookie, Tampered} \cup (1..(nextSid - 1))
NoFail == [name |-> "", message |-> ""]
StoreErrors == {[name |-> "MongoNetworkError", message |-> "connect ECONNREFUSED"],
                [name |-> "MongoServerSelectionError", message |-> "timed out"]}
StoreOutcomes == {NoFail} \cup StoreErrors
Slots == 1..MaxInflight

SignupBodies == [username : Usernames, email : Emails, password : {"p1"},
                 campus1 : {"c1", Missing}]
Stranger == "carol"                \* a username no signup ever uses
LoginNames == Usernames \cup {Stranger, Missing}
LoginPasswords == Passwords \cup {Missing}
ProjBodies == [name : {"proj"}, createdBy : {0} \cup UserIds]
ProfileBodies == [email : Emails, fullName : FullNames, phone : Phones]

(***************************** responses ***********************************)
\* String(err) and err.message, as the pieces of text they put in a body
ErrString(e) == <<e.name, e.message>>
ErrMessage(e) == <<e.message>>
NoDetail == <<>>

Body(status, msg, detail) == [status |-> status, msg |-> msg, detail |-> detail]
NoBody == Body(0, "", NoDetail)
NoResp == [route |-> "", status |-> 0, msg |-> "", detail |-> NoDetail, id |-> 0]
Resp(route, b) ==
  [route |-> route, status |-> b.status, msg |-> b.msg, detail |-> b.detail, id |-> 0]

(***************************** credential store ****************************)
NoUser == [id |-> 0, username |-> "", email |-> "", salt |-> 0, hash |-> <<0, "">>]
pbkdf2(password, salt) == <<salt, password>>
findByUsername(name) == {u \in users : u.username = name}
BadCredentials == "Password or username is incorrect"
NoInfo == [name |-> "", message |-> ""]

\* User.authenticate(): the verify function handed to the local strategy
verify(name, password) ==
  IF findByUsername(name) = {}
  THEN [user |-> NoUser,
        info |-> [name |-> "IncorrectUsernameError", message |-> BadCredentials]]
  ELSE LET u == CHOOSE x \in findByUsername(name) : TRUE IN
       IF pbkdf2(password, u.salt) = u.hash
       THEN [user |-> u, info |-> NoInfo]
       ELSE [user |-> NoUser,
             info |-> [name |-> "IncorrectPasswordError", message |-> BadCredentials]]

(***************************** session gate ********************************)
DeadSession == [live |-> FALSE, user |-> "", flash |-> <<>>]
NewSession == [live |-> TRUE, user |-> "", flash |-> <<>>]
IsLive(c) == c \in 1..MaxSessions /\ sessions[c].live

\* User.serializeUser() / User.deserializeUser(): the session holds the username
serializeUser(u) == u.username
deserializeUser(name) ==
  IF findByUsername(name) = {} THEN NoUser ELSE CHOOSE u \in findByUsername(name) : TRUE

\* passport.session(): the user a session resolves to, and req.user of a
\* request carrying cookie c
Resolved(session) ==
  IF session.live /\ session.user # "" THEN deserializeUser(session.user) ELSE NoUser
reqUser(c) == IF IsLive(c) THEN Resolved(sessions[c]) ELSE NoUser

(***************************** POST /login, /clublogin *********************)
flashed(s, message) == [s EXCEPT !.flash = Append(@, message)]

\* allFailed() of passport.authenticate with failureFlash: the message of the
\* strategy's info goes to the session's flash, the body is the status text
AuthFail(c, status, text, info) ==
  [status |-> status, msg |-> text,
   sid |-> IF IsLive(c) THEN c ELSE nextSid,
   session |-> flashed(IF IsLive(c) THEN sessions[c] ELSE NewSession, info.message),
   issued |-> ~IsLive(c), destroyed |-> NoCookie]

\* req.logIn(): the session is regenerated (the old one destroyed), the
\* serialized user stored in the new one, then the route's handler runs
AuthSuccess(c, u) ==
  [status |-> 200, msg |-> "Welcome",
   sid |-> nextSid,
   session |-> [live |-> TRUE, user |-> serializeUser(u), flash |-> <<>>],
   issued |-> TRUE, destroyed |-> IF IsLive(c) THEN c ELSE NoCookie]

\* the mutants of AuthOutcome
AuthOutcomeRebind(c, username, password) ==
  IF username = Missing \/ password = Missing
  THEN AuthFail(c, 400, "Bad Request", [name |-> "", message |-> "Missing credentials"])
  ELSE IF verify(username, password).user # NoUser
       THEN [status |-> 200, msg |-> "Welcome",
             sid |-> IF IsLive(c) THEN c ELSE nextSid,
             session |-> [live |-> TRUE, user |-> username,
                          flash |-> IF IsLive(c) THEN sessions[c].flash ELSE <<>>],
             issued |-> ~IsLive(c), destroyed |-> NoCookie]
       ELSE AuthFail(c, 401, "Unauthorized", verify(username, password).info)

AuthOutcomeNamed(c, username, password) ==
  IF username = Missing \/ password = Missing
  THEN AuthFail(c, 400, "Bad Request", [name |-> "", message |-> "Missing credentials"])
  ELSE IF verify(username, password).user # NoUser
       THEN AuthSuccess(c, verify(username, password).user)
       ELSE AuthFail(c, 401, "Unauthorized",
                     [name |-> "", message |-> verify(username, password).info.name])

AuthOutcomeBindFirst(c, username, password) ==
  IF username = Missing \/ password = Missing
  THEN AuthFail(c, 400, "Bad Request", [name |-> "", message |-> "Missing credentials"])
  ELSE IF verify(username, password).user # NoUser
       THEN AuthSuccess(c, verify(username, password).user)
       ELSE [AuthFail(c, 401, "Unauthorized", verify(username, password).info)
               EXCEPT !.session.user = username]

\* passport.authenticate('local', { failureFlash: true }) and the handler after it
AuthOutcome(c, username, password) ==
  IF username = Missing \/ password = Missing
  THEN AuthFail(c, 400, "Bad Request", [name |-> "", message |-> "Missing credentials"])
  ELSE IF verify(username, password).user # NoUser
       THEN AuthSuccess(c, verify(username, password).user)
       ELSE AuthFail(c, 401, "Unauthorized", verify(username, password).info)

\* the flash messages held in the session store
RECURSIVE FlashCount(_)
FlashCount(n) == IF n = 0 THEN 0 ELSE Len(sessions[n].flash) + FlashCount(n - 1)

\* an outcome the bounds of the model have room for
Fits(out) ==
  /\ out.sid <= MaxSessions
  /\ out.status \in {400, 401} => FlashCount(MaxSessions) < MaxFlash

ApplyAuth(route, c, out) ==
  /\ Fits(out)
  /\ sessions' = [s \in 1..MaxSessions |->
                    IF s = out.sid THEN out.session
                    ELSE IF s = out.destroyed THEN DeadSession
                    ELSE sessions[s]]
  /\ nextSid' = IF out.issued THEN nextSid + 1 ELSE nextSid
  /\ lastResp' = Resp(route, Body(out.status, out.msg, NoDetail))

\* the store fails under the strategy's lookup: next(err), and Express's
\* default error handler answers 500 (what it writes after the status text is
\* not modelled); the session is not touched
AuthStoreError(route) ==
  /\ UNCHANGED <<sessions, nextSid>>
  /\ lastResp' = Resp(route, Body(500, "Internal Server Error", NoDetail))

Authenticate(route) ==
  /\ \/ \E c \in Cookies, username \in LoginNames, password \in LoginPasswords :
          ApplyAuth(route, c, AuthOutcome(c, username, password))
     \/ AuthStoreError(route)
  /\ UNCHANGED <<users, projects, madeBy, clubs, details, emailUnique, lastSaved,
                 profileWriter, signupReq, profileReq>>

Login == Authenticate("login")

ClubLogin == Authenticate("clublogin")

(***************************** the session store is lost *******************)
\* sessionOptions names no store: sessions live in the process's memory, with
\* no expiry, and are lost (with the requests in flight) when it restarts
IdleSignup == [pc |-> "idle", body |-> [username |-> "", email |-> "", password |-> "",
                                         campus1 |-> ""],
               endedAt |-> "", err |-> "", resp |-> NoBody]
NoDoc == [id |-> 0, email |-> "", fullName |-> "", phone |-> ""]
IdleProfile == [pc |-> "idle", body |-> [email |-> "", fullName |-> "", phone |-> ""],
                writer |-> "", loaded |-> NoDoc, err |-> "", resp |-> NoBody]

Restart ==
  /\ sessions' = [s \in 1..MaxSessions |-> DeadSession]
  /\ signupReq' = [i \in Slots |-> IdleSignup]
  /\ profileReq' = [i \in Slots |-> IdleProfile]
  /\ lastResp' = NoResp
  /\ UNCHANGED <<users, nextSid, projects, madeBy, clubs, details, emailUnique,
                 lastSaved, profileWriter>>

(***************************** privileged routes ***************************)
Unauthorized == Body(401, "Unauthorized", NoDetail)

\* requireAuthenticated(): whether the request is attached to a principal
isLoggedIn(user) == user # NoUser

\* the handler of POST /makeproj: reading req.user._id of an absent user throws,
\* and the catch answers as for a failed save
MakeProjHandler(user, body, e) ==
  IF user = NoUser \/ e # NoFail
  THEN [resp |-> Body(500, "Error during project creation", NoDetail),
        id |-> 0, projects |-> projects]
  ELSE [resp |-> Body(200, "success", NoDetail),
        id |-> Cardinality(projects) + 1,
        projects |-> projects \cup {[id |-> Cardinality(projects) + 1,
                                      name |-> body.name, createdBy |-> user.id]}]

Rejected == [resp |-> Unauthorized, id |-> 0, projects |-> projects]

\* the mutants of MakeProjRoute
MakeProjRouteOpen(c, body, e) == MakeProjHandler(reqUser(c), body, e)

MakeProjRouteBodyOwner(c, body, e) ==
  IF isLoggedIn(reqUser(c))
  THEN IF e # NoFail THEN MakeProjHandler(reqUser(c), body, e)
       ELSE [resp |-> Body(200, "success", NoDetail),
             id |-> Cardinality(projects) + 1,
             projects |-> projects \cup
               {[id |-> Cardinality(projects) + 1, name |-> body.name,
                 createdBy |-> IF body.createdBy # 0 THEN body.createdBy
                               ELSE reqUser(c).id]}]
  ELSE Rejected

\* app.post('/makeproj', isLoggedIn, handler)
MakeProjRoute(c, body, e) ==
  IF isLoggedIn(reqUser(c)) THEN MakeProjHandler(reqUser(c), body, e) ELSE Rejected

MakeProj ==
  \E c \in Cookies, body \in ProjBodies, e \in StoreOutcomes :
    LET out == MakeProjRoute(c, body, e) IN
    /\ Cardinality(out.projects) <= MaxProjects
    /\ projects' = out.projects
    /\ madeBy' = IF reqUser(c) # NoUser /\ out.resp.status = 200
                 THEN Append(madeBy, reqUser(c).id) ELSE madeBy
    /\ lastResp' = [Resp("makeproj", out.resp) EXCEPT !.id = out.id]
    /\ UNCHANGED <<users, sessions, nextSid, clubs, details, emailUnique, lastSaved,
                   profileWriter, signupReq, profileReq>>

\* getUserDetails, then the handler of GET /userpage
getUserDetails(user, e) ==
  IF user = NoUser THEN Body(401, "Not authenticated", NoDetail)
  ELSE IF e # NoFail THEN Body(500, "Error fetching user details", NoDetail)
  ELSE Body(200, "details", NoDetail)

\* app.get('/userpage', isLoggedIn, getUserDetails, handler)
GetUserPageRoute(c, e) ==
  IF isLoggedIn(reqUser(c)) THEN getUserDetails(reqUser(c), e) ELSE Unauthorized

OneStep(resp) ==
  /\ lastResp' = resp
  /\ UNCHANGED <<users, sessions, nextSid, projects, madeBy, details, emailUnique,
                 lastSaved, profileWriter, signupReq, profileReq>>

GetUserPage ==
  \E c \in Cookies, e \in StoreOutcomes :
    /\ OneStep(Resp("get_userpage", GetUserPageRoute(c, e)))
    /\ UNCHANGED clubs

(***************************** public data routes **************************)
ListingsBody(e) ==
  IF e = NoFail THEN Body(200, "projects", NoDetail)
  ELSE Body(500, "Error fetching project data", NoDetail)

ClubPostBody(e) ==
  IF e = NoFail THEN Body(200, "clubs", NoDetail) ELSE Body(400, "", ErrString(e))

PeopleBody(e) ==
  IF e = NoFail THEN Body(200, "people", NoDetail) ELSE Body(500, "", ErrMessage(e))

ClubListingBody(e) ==
  IF e = NoFail THEN Body(200, "Club added!", NoDetail) ELSE Body(400, "", ErrString(e))

Listings ==
  \E e \in StoreOutcomes :
    OneStep(Resp("listings", ListingsBody(e))) /\ UNCHANGED clubs

ClubPost ==
  \E e \in StoreOutcomes :
    OneStep(Resp("clubpost", ClubPostBody(e))) /\ UNCHANGED clubs

People ==
  \E e \in StoreOutcomes :
    OneStep(Resp("people", PeopleBody(e))) /\ UNCHANGED clubs

ClubListing ==
  \E e \in StoreOutcomes :
    /\ e = NoFail => clubs < MaxClubs
    /\ clubs' = IF e = NoFail THEN clubs + 1 ELSE clubs
    /\ OneStep(Resp("clublisting", ClubListingBody(e)))

(***************************** POST /signup ********************************)
CampusRequired == [name |-> "Error", message |-> "Campus is required"]
UserExistsError == [name |-> "UserExistsError",
                    message |-> "A user with the given username is already registered"]
DuplicateKey == [name |-> "MongoServerError", message |-> "E11000 duplicate key error"]

\* the error taxonomy: what kind of failure an internal error is
Kind(err) ==
  IF err = NoFail THEN ""
  ELSE IF err \in StoreErrors THEN "StoreUnavailable"
  ELSE IF err \in {UserExistsError, DuplicateKey} THEN "DuplicateIdentity"
  ELSE "Validation"

\* if (!campus1) throw new Error('Campus is required')
SignupValidate(body) == IF body.campus1 = Missing THEN CampusRequired ELSE NoFail

\* User.register, up to its save: the username is looked up first
registerCheck(body, e) ==
  IF e # NoFail THEN e
  ELSE IF findByUsername(body.username) # {} THEN UserExistsError
  ELSE NoFail

\* User.register's save: the store's unique indexes on username and email decide
registerSave(body, e) ==
  IF e # NoFail THEN e
  ELSE IF \E u \in users : u.username = body.username \/ u.email = body.email
       THEN DuplicateKey
  ELSE NoFail

newUser(body) ==
  [id |-> Cardinality(users) + 1, username |-> body.username, email |-> body.email,
   salt |-> Cardinality(users) + 1,
   hash |-> pbkdf2(body.password, Cardinality(users) + 1)]

\* the mutants of SignupResponse
SignupResponseLeaky(err) ==
  IF err = NoFail THEN Body(200, "Signup successful", NoDetail)
  ELSE Body(500, "Error during signup", ErrMessage(err))

SignupResponseSwallow(err) == Body(200, "Signup successful", NoDetail)

\* res.json(success) at the end of the try, res.status(500).json(...) in the catch
SignupResponse(err) ==
  IF err = NoFail THEN Body(200, "Signup successful", NoDetail)
  ELSE Body(500, "Error during signup", NoDetail)

SignupFrame ==
  UNCHANGED <<sessions, nextSid, projects, madeBy, clubs, details, emailUnique,
              lastSaved, profileWriter, profileReq, lastResp>>

\* the handler up to the first store operation of User.register and its result
\* (a slot keeps its request and the response to it until the process restarts)
SignupBegin(i) ==
  \E body \in SignupBodies, e \in StoreOutcomes :
    LET invalid == SignupValidate(body)
        err == IF invalid # NoFail THEN invalid ELSE registerCheck(body, e)
    IN
    /\ signupReq[i].pc = "idle"
    /\ signupReq' = [signupReq EXCEPT ![i] =
         IF err = NoFail
         THEN [pc |-> "reg_save", body |-> body, endedAt |-> "", err |-> Kind(NoFail),
               resp |-> NoBody]
         ELSE [pc |-> "done", body |-> body,
               endedAt |-> IF invalid # NoFail THEN "validate" ELSE "find",
               err |-> Kind(err), resp |-> SignupResponse(err)]]
    /\ UNCHANGED users
    /\ SignupFrame

\* User.register's save and the response
SignupSave(i) ==
  \E e \in StoreOutcomes :
    LET err == registerSave(signupReq[i].body, e) IN
    /\ signupReq[i].pc = "reg_save"
    /\ users' = IF err = NoFail THEN users \cup {newUser(signupReq[i].body)} ELSE users
    /\ signupReq' = [signupReq EXCEPT ![i] =
         [@ EXCEPT !.pc = "done", !.endedAt = "save", !.err = Kind(err),
                   !.resp = SignupResponse(err)]]
    /\ SignupFrame

(***************************** POST /userpage ******************************)
NoFields == [fullName |-> "", phone |-> ""]
Fields(r) == [fullName |-> r.fullName, phone |-> r.phone]

\* userdetail.findOne({ email }): the first document with that email
findOne(email) ==
  IF \A d \in details : d.email # email THEN NoDoc
  ELSE CHOOSE d \in details :
         d.email = email /\ \A o \in details : o.email = email => d.id <= o.id

UserPageResponse(err) ==
  IF err = NoFail THEN Body(200, "saved", NoDetail)
  ELSE Body(500, "An error occurred while saving user details", ErrString(err))

\* details.save() of a new document: an insert
insertDetails(body, e) ==
  IF e # NoFail THEN [err |-> e, details |-> details]
  ELSE IF emailUnique /\ \E d \in details : d.email = body.email
       THEN [err |-> DuplicateKey, details |-> details]
  ELSE [err |-> NoFail,
        details |-> details \cup {[id |-> Cardinality(details) + 1, email |-> body.email,
                                    fullName |-> body.fullName, phone |-> body.phone]}]

\* details.save() of a loaded document: the paths whose value Object.assign
\* changed from the loaded one are set on the stored document
updateDetails(loaded, body, e) ==
  IF e # NoFail THEN [err |-> e, details |-> details]
  ELSE [err |-> NoFail,
        details |-> {IF d.id # loaded.id THEN d
                     ELSE [d EXCEPT
                             !.fullName = IF body.fullName # loaded.fullName
                                          THEN body.fullName ELSE @,
                             !.phone = IF body.phone # loaded.phone
                                       THEN body.phone ELSE @] : d \in details}]

ProfileFrame ==
  UNCHANGED <<users, sessions, nextSid, projects, madeBy, clubs, emailUnique,
              signupReq, lastResp>>

Principal(c) == IF reqUser(c) = NoUser THEN "anonymous" ELSE reqUser(c).email

\* the handler up to userdetail.findOne and its result
UserPageFind(i) ==
  \E c \in Cookies, body \in ProfileBodies, e \in StoreOutcomes :
    /\ profileReq[i].pc \in {"idle", "done"}
    /\ profileReq' = [profileReq EXCEPT ![i] =
         IF e = NoFail
         THEN [pc |-> "up_save", body |-> body, writer |-> Principal(c),
               loaded |-> findOne(body.email), err |-> Kind(NoFail), resp |-> NoBody]
         ELSE [IdleProfile EXCEPT !.pc = "done", !.err = Kind(e),
                                  !.resp = UserPageResponse(e)]]
    /\ UNCHANGED <<details, lastSaved, profileWriter>>
    /\ ProfileFrame

\* details.save() and the response
UserPageSave(i) ==
  \E e \in StoreOutcomes :
    LET r == profileReq[i]
        out == IF r.loaded = NoDoc THEN insertDetails(r.body, e)
               ELSE updateDetails(r.loaded, r.body, e)
    IN
    /\ r.pc = "up_save"
    /\ Cardinality(out.details) <= MaxDocs
    /\ details' = out.details
    /\ lastSaved' = IF out.err = NoFail
                    THEN [lastSaved EXCEPT ![r.body.email] = Fields(r.body)]
                    ELSE lastSaved
    /\ profileWriter' = IF out.err = NoFail
                        THEN [profileWriter EXCEPT ![r.body.email] = r.writer]
                        ELSE profileWriter
    /\ profileReq' = [profileReq EXCEPT ![i] =
         [IdleProfile EXCEPT !.pc = "done", !.err = Kind(out.err),
                             !.resp = UserPageResponse(out.err)]]
    /\ ProfileFrame

(***************************** specifications ******************************)
\* a fresh deployment: every collection is empty
Init ==
  /\ users = {}
  /\ sessions = [s \in 1..MaxSessions |-> DeadSession]
  /\ nextSid = 1
  /\ projects = {}
  /\ madeBy = <<>>
  /\ clubs = 0
  /\ details = {}
  /\ emailUnique = FALSE
  /\ lastSaved = [e \in Emails |-> NoFields]
  /\ profileWriter = [e \in Emails |-> "none"]
  /\ signupReq = [i \in Slots |-> IdleSignup]
  /\ profileReq = [i \in Slots |-> IdleProfile]
  /\ lastResp = NoResp

\* concurrent signups
NextSignup ==
  \/ \E i \in Slots : SignupBegin(i)
  \/ \E i \in Slots : SignupSave(i)
  \/ Restart

SpecSignup == Init /\ [][NextSignup]_vars

\* the accounts two signups leave behind
TwoAccounts ==
  {[id |-> 1, username |-> "alice", email |-> "a@x.com", salt |-> 1,
    hash |-> pbkdf2("p1", 1)],
   [id |-> 2, username |-> "bob", email |-> "b@x.com", salt |-> 2,
    hash |-> pbkdf2("p1", 2)]}

\* the server started on a store that holds two accounts
InitGate ==
  /\ users = TwoAccounts
  /\ sessions = [s \in 1..MaxSessions |-> DeadSession]
  /\ nextSid = 1
  /\ projects = {}
  /\ madeBy = <<>>
  /\ clubs = 0
  /\ details = {}
  /\ emailUnique = FALSE
  /\ lastSaved = [e \in Emails |-> NoFields]
  /\ profileWriter = [e \in Emails |-> "none"]
  /\ signupReq = [i \in Slots |-> IdleSignup]
  /\ profileReq = [i \in Slots |-> IdleProfile]
  /\ lastResp = NoResp

\* the session gate and the routes behind it
Next ==
  \/ Login
  \/ ClubLogin
  \/ MakeProj
  \/ GetUserPage
  \/ Restart

Spec == InitGate /\ [][Next]_vars

\* the profile collection under either schema, with or without a unique index
InitProfile ==
  /\ users = {}
  /\ sessions = [s \in 1..MaxSessions |-> DeadSession]
  /\ nextSid = 1
  /\ projects = {}
  /\ madeBy = <<>>
  /\ clubs = 0
  /\ details = {}
  /\ emailUnique \in BOOLEAN
  /\ lastSaved = [e \in Emails |-> NoFields]
  /\ profileWriter = [e \in Emails |-> "none"]
  /\ signupReq = [i \in Slots |-> IdleSignup]
  /\ profileReq = [i \in Slots |-> IdleProfile]
  /\ lastResp = NoResp

\* the routes that ask for no session, one request at a time
NextData ==
  \/ Listings
  \/ ClubPost
  \/ People
  \/ ClubListing
  \/ UserPageFind(1)
  \/ UserPageSave(1)
  \/ Restart

SpecData == InitProfile /\ [][NextData]_vars

\* concurrent profile submissions
NextProfile ==
  \/ \E i \in Slots : UserPageFind(i)
  \/ \E i \in Slots : UserPageSave(i)
  \/ Restart

SpecProfile == InitProfile /\ [][NextProfile]_vars

(***************************** the claims **********************************)
FailedLogin ==
  lastResp.route \in {"login", "clublogin"} /\ lastResp.status \in {400, 401, 500}

RejectsPrivileged(c) ==
  /\ \A body \in ProjBodies, e \in StoreOutcomes : MakeProjRoute(c, body, e) = Rejected
  /\ \A e \in StoreOutcomes : GetUserPageRoute(c, e) = Unauthorized

\* C1: an Anonymous request never runs the body of POST /makeproj or GET
\* /userpage: there are as many Project records as POST /makeproj requests of
\* a principal that succeeded, and every request that resolves to no principal
\* is answered by both routes with the authorization failure, nothing created.
C1_AnonymousNeverRuns ==
  /\ Cardinality(projects) = Len(madeBy)
  /\ \A c \in Cookies : reqUser(c) = NoUser => RejectsPrivileged(c)

C1_Witness ==
  /\ lastResp.route = "makeproj"
  /\ lastResp.status = 401
  /\ Len(madeBy) = 1
  /\ \E c \in 1..(nextSid - 1) : reqUser(c) = NoUser

\* C2: the Project record a POST /makeproj creates has createdBy equal to the
\* id of the principal the request's session resolves to, whatever user id the
\* body names.
C2_OwnerIsSessionPrincipal ==
  /\ \A p \in projects : p.id \in 1..Len(madeBy) /\ p.createdBy = madeBy[p.id]
  /\ \A c \in Cookies, body \in ProjBodies :
       MakeProjRoute(c, body, NoFail).resp.status = 200
         => MakeProjRoute(c, body, NoFail).projects \ projects
              = {[id |-> Cardinality(projects) + 1, name |-> body.name,
                  createdBy |-> reqUser(c).id]}

C2_Witness ==
  /\ lastResp.route = "makeproj"
  /\ lastResp.status = 200
  /\ \E p \in projects, u \in users :
       p.id = lastResp.id /\ p.createdBy = madeBy[p.id] /\ u.id # p.createdBy

\* C3: a session bound to a principal resolves to that principal for as long as
\* it is live, and a session id that was issued and is no longer live stays so:
\* a request carrying it is Anonymous.
C3_SessionKeepsPrincipal ==
  [][\A s \in 1..MaxSessions :
       /\ (IsLive(s) /\ reqUser(s) # NoUser /\ sessions'[s].live)
            => reqUser(s)' = reqUser(s)
       /\ (s < nextSid /\ ~IsLive(s))
            => (~sessions'[s].live /\ reqUser(s)' = NoUser)]_vars

C3_Witness ==
  /\ \E s \in 1..MaxSessions : IsLive(s) /\ reqUser(s) # NoUser
  /\ \E s \in 1..(nextSid - 1) : ~IsLive(s)
  /\ lastResp.route = "makeproj"
  /\ lastResp.status = 401

\* C4: a login with a registered username and a wrong password and a login
\* with an unknown username have the same outcome: the same status and body
\* and the same session afterwards, flash message included.
C4_FailuresIndistinguishable ==
  \A c \in Cookies, known \in LoginNames, unknown \in LoginNames \ {Missing},
     wrong \in Passwords, any \in Passwords :
    (/\ findByUsername(known) # {}
     /\ verify(known, wrong).user = NoUser
     /\ findByUsername(unknown) = {})
      => AuthOutcome(c, known, wrong) = AuthOutcome(c, unknown, any)

C4_Witness ==
  /\ lastResp.route = "login"
  /\ lastResp.status = 401
  /\ \E s \in 1..MaxSessions : IsLive(s) /\ sessions[s].flash = <<BadCredentials>>
  /\ \E known \in LoginNames, unknown \in LoginNames \ {Missing}, wrong \in Passwords :
       /\ findByUsername(known) # {}
       /\ verify(known, wrong).user = NoUser
       /\ findByUsername(unknown) = {}

\* C5, as claimed: after a failed login the session the response's cookie
\* refers to is bound to no principal, and a privileged request with that
\* cookie is rejected.
C5_FailedLoginLeavesAnonymous ==
  \A c \in Cookies, username \in LoginNames, password \in LoginPasswords :
    AuthOutcome(c, username, password).status # 200
      => Resolved(AuthOutcome(c, username, password).session) = NoUser

\* C5, amended: a failed login does not run the success handler and leaves
\* every cookie resolving as it did when the request arrived: an Anonymous
\* client stays Anonymous (the session its response sets is bound to no
\* principal) and is rejected by the privileged routes, and a client whose
\* cookie resolved to a principal keeps that principal.
C5_FailedLoginKeepsBinding ==
  /\ [](\A c \in Cookies, username \in LoginNames, password \in LoginPasswords :
          AuthOutcome(c, username, password).status # 200
            => /\ AuthOutcome(c, username, password).msg # "Welcome"
               /\ Resolved(AuthOutcome(c, username, password).session) = reqUser(c))
  /\ [](\A c \in Cookies : reqUser(c) = NoUser => RejectsPrivileged(c))
  /\ [][FailedLogin' => \A s \in 1..MaxSessions : reqUser(s)' = reqUser(s)]_vars

C5_Witness ==
  /\ FailedLogin
  /\ \E s \in 1..MaxSessions :
       /\ IsLive(s)
       /\ sessions[s].flash # <<>>
       /\ reqUser(s) = NoUser
       /\ RejectsPrivileged(s)

GenericSignupFailure == Body(500, "Error during signup", NoDetail)
Ended(i) == signupReq[i].pc = "done"
Failed(i) == Ended(i) /\ signupReq[i].resp.status # 200

\* C6: a POST /signup that ends in failure leaves the User collection as it
\* was: a missing campus fails before any store operation, a taken username or
\* email adds and overwrites nothing, and the failure is the same generic
\* response in every case.
C6_FailedSignupChangesNothing ==
  /\ [](\A i \in Slots :
          /\ Failed(i) => signupReq[i].resp = GenericSignupFailure
          /\ (Ended(i) /\ signupReq[i].body.campus1 = Missing)
               => (Failed(i) /\ signupReq[i].endedAt = "validate"))
  /\ [](\A u, v \in users : (u.username = v.username \/ u.email = v.email) => u = v)
  /\ [][/\ users \subseteq users'
        /\ \A i \in Slots :
             (signupReq'[i] # signupReq[i] /\ signupReq'[i].pc = "done"
                /\ signupReq'[i].resp.status # 200) => users' = users]_vars

C6_Witness ==
  \E i \in Slots :
    /\ Failed(i)
    /\ signupReq[i].endedAt = "save"
    /\ signupReq[i].err = "DuplicateIdentity"
    /\ \E u \in users : u.email = signupReq[i].body.email
                         /\ u.username # signupReq[i].body.username

RanToSave(i) ==
  /\ Ended(i)
  /\ signupReq[i].endedAt = "save"
  /\ signupReq[i].err # "StoreUnavailable"

EmailFree(i) ==
  \A u \in users :
    u.email = signupReq[i].body.email => u.username = signupReq[i].body.username

\* C7: of two signups with the same username and different emails that both
\* found the username free and both reached the save (no third signup asking
\* for that username, neither email being another account's, the store
\* answering both), exactly one succeeds and the other gets the generic
\* failure, and the one User record with that username holds the data of the
\* one that succeeded.
C7_OneSignupWins ==
  \A i, j \in Slots :
    (/\ i # j
     /\ RanToSave(i) /\ RanToSave(j)
     /\ signupReq[i].body.username = signupReq[j].body.username
     /\ signupReq[i].body.email # signupReq[j].body.email
     /\ \A k \in Slots \ {i, j} :
          signupReq[k].body.username # signupReq[i].body.username
     /\ EmailFree(i) /\ EmailFree(j))
      => \E w \in {i, j} :
           /\ signupReq[w].resp.status = 200
           /\ \A l \in {i, j} \ {w} : signupReq[l].resp = GenericSignupFailure
           /\ \E u \in users :
                /\ findByUsername(signupReq[w].body.username) = {u}
                /\ u.email = signupReq[w].body.email
                /\ u.hash = pbkdf2(signupReq[w].body.password, u.salt)

C7_Witness ==
  \E i, j \in Slots :
    /\ i # j
    /\ RanToSave(i) /\ RanToSave(j)
    /\ signupReq[i].body.username = signupReq[j].body.username
    /\ signupReq[i].body.email # signupReq[j].body.email
    /\ signupReq[i].resp.status = 200
    /\ signupReq[j].err = "DuplicateIdentity"

\* C8: the profile record of email e is created or changed only by a request
\* whose session resolves to the principal whose email is e.
C8_OnlyOwnerWritesProfile ==
  \A e \in Emails : profileWriter[e] \in {"none", e}

\* C9: the response to a failed store operation carries no text of the
\* internal error, on every route.
C9_FailureIsGeneric ==
  /\ lastResp.route \in {"listings", "clubpost", "people", "clublisting"}
       => lastResp.detail = NoDetail
  /\ \A i \in Slots : profileReq[i].resp.detail = NoDetail

\* C10: POST /userpage is an upsert keyed by email: at most one profile record
\* per email, and that record holds the fields of the last request saved.
C10_UpsertKeepsOneRecord ==
  /\ \A e \in Emails : Cardinality({d \in details : d.email = e}) <= 1
  /\ \A d \in details : Fields(d) = lastSaved[d.email]
====
